---- MODULE Spec2Model ----
(***************************************************************************)
(* A model of cppdep.py: the Project object (header_files_lookup,          *)
(* header_files, source_files, components), its nodes (HeaderFile,         *)
(* SourceFile) and the operations main() runs on it: scan_include_dirs,    *)
(* scan_source_dirs, preprocess_header_files, preprocess_source_files,     *)
(* transitive_reduction and component_partitioning.                        *)
(*                                                                         *)
(* Objects are numbered in creation order; node[k] holds the immutable     *)
(* fields of object k, includes[k] and component[k] its mutable fields.    *)
(* A path is a record [dir, root, ext]: the directory components, and the  *)
(* file name already split where os.path.splitext splits it.               *)
(***************************************************************************)
EXTENDS Naturals, Sequences, FiniteSets, TLC

VARIABLES
    node,                 \* object number -> [cls, include_path, file_path]
    includes,             \* object number -> node.includes (a list of object numbers)
    component,            \* object number -> node.component (0 is None, else index in components)
    header_files_lookup,  \* Project.header_files_lookup: path -> object number
    header_files,         \* Project.header_files
    source_files,         \* Project.source_files
    components,           \* Project.components: list of [source_file, header_file]
    pc,                   \* position of main()
    copy,                 \* the list copy the running loop iterates over
    i,                    \* index of the outer loop in copy
    j,                    \* index of the inner loop
    error,                \* "none", or the exception that ended the run
    runs,                 \* number of completed transitive_reduction calls
    input_includes,       \* includes as the graph builder left them
    prev_includes,        \* includes before the latest transitive_reduction
    last_case             \* branch taken by the latest pairing test

vars == <<node, includes, component, header_files_lookup, header_files,
          source_files, components, pc, copy, i, j, error, runs,
          input_includes, prev_includes, last_case>>

----------------------------------------------------------------------------
(* Bounds *)

MaxIncludes == 2

MaxRuns == 2

MaxDirs == 2

MaxDeps == 1

----------------------------------------------------------------------------
(* Paths and lists *)

Path(d, r, e) == [dir |-> d, root |-> r, ext |-> e]

\* The value of file_path for a missing header (None)
NoPath == Path(<<>>, "", "")

HeaderFile_file_extensions == {".hpp", ".h", ".inl"}

SourceFile_file_extensions == {".cpp", ".cc", ".c++"}

\* os.path.splitext(os.path.basename(p))
basename_splitext(p) == <<p.root, p.ext>>

Range(s) == {s[k] : k \in 1..Len(s)}

Contains(list, x) == \E k \in 1..Len(list) : list[k] = x

\* list.remove(x): the list without the first occurrence of x
list_remove(list, x) ==
    LET k == CHOOSE m \in 1..Len(list) :
                 list[m] = x /\ \A q \in 1..(m - 1) : list[q] # x
    IN  [q \in 1..(Len(list) - 1) |-> IF q < k THEN list[q] ELSE list[q + 1]]

\* Lists without repetition, of at most k elements of S
Lists(S, k) ==
    {s \in UNION {[1..m -> S] : m \in 0..k} :
        \A a, b \in 1..Len(s) : a # b => s[a] # s[b]}

----------------------------------------------------------------------------
(* Project.transitive_reduction *)

\* Lines 238-250: the three dictionaries, one entry per listed node
InitMarks(inc, hfiles, sfiles) ==
    LET keys == Range(hfiles) \cup Range(sfiles)
    IN  [includes        |-> inc,
         permanent_mark  |-> [n \in keys |-> FALSE],
         reachable_nodes |-> [n \in keys |-> {}],
         temp_mark       |-> [n \in keys |-> FALSE],
         error           |-> "none"]

\* Python's call stack: deeper than one frame per node plus the call that
\* returns at once means the recursion never unwinds
RecursionLimit(s) == Cardinality(DOMAIN s.permanent_mark) + 1

\* Mutation: the temporary mark is never looked at
CycleDetected_never(s, n) == FALSE

\* Line 257: "if temp_mark[node]"
CycleDetected(s, n) == s.temp_mark[n]

\* Mutation: the two children change places in the test
Redundant_swapped(s, child1, child2) == child2 \in s.reachable_nodes[child1]

\* Line 268: "if child1 in reachable_nodes[child2]"
Redundant(s, child1, child2) == child1 \in s.reachable_nodes[child2]

\* Mutation: the inner loop breaks after its first pass, found or not
RemovesChild_first(s, nodes, child1) ==
    Len(nodes) >= 1 /\ child1 \in s.reachable_nodes[nodes[1]]

\* Lines 267-270: the inner loop finds a child2 and breaks, or finds none
RemovesChild(s, nodes, child1) ==
    \E k \in 1..Len(nodes) : Redundant(s, child1, nodes[k])

\* Lines 265-270: nodes = node.includes.copy(); for child1 in nodes ...
RECURSIVE ReduceIncludes(_, _, _, _)
ReduceIncludes(s, n, nodes, k) ==
    IF k > Len(nodes) \/ s.error # "none" THEN s
    ELSE IF RemovesChild(s, nodes, nodes[k])
         THEN IF Contains(s.includes[n], nodes[k])
              THEN ReduceIncludes(
                       [s EXCEPT !.includes[n] = list_remove(@, nodes[k])],
                       n, nodes, k + 1)
              ELSE [s EXCEPT !.error = "ValueError"]
    ELSE ReduceIncludes(s, n, nodes, k + 1)

\* Mutation: a node counts itself among the nodes it reaches
UpdateReachable_self(s, n) ==
    [s EXCEPT !.reachable_nodes[n] =
        @ \cup {n} \cup Range(s.includes[n])
          \cup UNION {s.reachable_nodes[c] : c \in Range(s.includes[n])}]

\* Lines 272-274: reachable_nodes[node] gets each child and what it reaches
UpdateReachable(s, n) ==
    [s EXCEPT !.reachable_nodes[n] =
        @ \cup Range(s.includes[n])
          \cup UNION {s.reachable_nodes[c] : c \in Range(s.includes[n])}]

\* Lines 252-277: visit(node); d is the depth of the call
RECURSIVE visit(_, _, _)
RECURSIVE VisitChildren(_, _, _, _)
visit(s, n, d) ==
    IF s.error # "none" THEN s
    ELSE IF d > RecursionLimit(s) THEN [s EXCEPT !.error = "RecursionError"]
    ELSE IF n \notin DOMAIN s.permanent_mark THEN [s EXCEPT !.error = "KeyError"]
    ELSE IF s.permanent_mark[n] THEN s
    ELSE IF CycleDetected(s, n) THEN s
    ELSE LET s1 == [s EXCEPT !.temp_mark[n] = TRUE]
             s2 == VisitChildren(s1, s1.includes[n], 1, d + 1)
             s3 == ReduceIncludes(s2, n, s2.includes[n], 1)
             s4 == IF s3.error # "none" THEN s3 ELSE UpdateReachable(s3, n)
         IN  IF s4.error # "none" THEN s4
             ELSE [s4 EXCEPT !.temp_mark[n] = FALSE, !.permanent_mark[n] = TRUE]

\* Lines 262-263, 279-283: "for x in list: visit(x)"
VisitChildren(s, list, k, d) ==
    IF k > Len(list) \/ s.error # "none" THEN s
    ELSE VisitChildren(visit(s, list[k], d), list, k + 1, d)

\* Lines 237-283
transitive_reduction(inc, hfiles, sfiles) ==
    VisitChildren(VisitChildren(InitMarks(inc, hfiles, sfiles), hfiles, 1, 1),
                  sfiles, 1, 1)

\* main(), line 363
TransitiveReduction ==
    /\ pc = "reduce"
    /\ error = "none"
    /\ runs < MaxRuns
    /\ LET s == transitive_reduction(includes, header_files, source_files)
       IN  /\ includes' = s.includes
           /\ error' = s.error
    /\ prev_includes' = includes
    /\ runs' = runs + 1
    /\ UNCHANGED <<node, component, header_files_lookup, header_files,
                   source_files, components, pc, copy, i, j,
                   input_includes, last_case>>

----------------------------------------------------------------------------
(* Component and Project.component_partitioning *)

\* Lines 292 and 317: same base name, different extension
SameNameOtherExt(p1, p2) ==
    /\ basename_splitext(p1)[1] = basename_splitext(p2)[1]
    /\ basename_splitext(p1)[2] # basename_splitext(p2)[2]

\* Mutation: only "both have a component" is left alone, every other
\* match makes a new component
PairingCase_pairs_again(comp, n1, p1, n2, p2) ==
    IF ~SameNameOtherExt(p1, p2) THEN "no_match"
    ELSE IF comp[n1] # 0 /\ comp[n2] # 0 THEN "both"
    ELSE "neither"

\* Lines 292-305 and 317-329: the branch the pairing test takes for the
\* referencing node n1 (path p1) and the referenced node n2 (path p2)
PairingCase(comp, n1, p1, n2, p2) ==
    IF ~SameNameOtherExt(p1, p2) THEN "no_match"
    ELSE IF comp[n1] # 0 /\ comp[n2] # 0 THEN "both"
    ELSE IF comp[n1] # 0 /\ comp[n2] = 0 THEN "first_only"
    ELSE IF comp[n1] = 0 /\ comp[n2] # 0 THEN "second_only"
    ELSE "neither"

\* Mutation: the header's back-reference is forgotten
Component_init_source_only(comp, c, source_file, header_file) ==
    [comp EXCEPT ![source_file] = c]

\* Lines 72-76: Component.__init__ sets both back-references; c is the
\* new component
Component_init(comp, c, source_file, header_file) ==
    [comp EXCEPT ![source_file] = c, ![header_file] = c]

\* Mutation: the paired node stays in its list
RemovePaired_keep(list, n) == list

\* Lines 308-309 and 332-333: the two list.remove calls after a pairing
RemovePaired(list, n) == list_remove(list, n)

\* main(), line 364, and line 286: source_files.copy()
ComponentPartitioning ==
    /\ pc = "reduce"
    /\ error = "none"
    /\ runs >= 1
    /\ pc' = "source_loop"
    /\ copy' = source_files
    /\ i' = 1
    /\ j' = 1
    /\ UNCHANGED <<node, includes, component, header_files_lookup,
                   header_files, source_files, components, error, runs,
                   input_includes, prev_includes, last_case>>

\* Lines 289-309: one pass of the inner loop over source_file.includes
PairSourceHeader ==
    /\ pc = "source_loop"
    /\ error = "none"
    /\ i <= Len(copy)
    /\ j <= Len(includes[copy[i]])
    /\ LET source_file == copy[i]
           header_file == includes[source_file][j]
           case == PairingCase(component, source_file, node[source_file].file_path,
                               header_file, node[header_file].include_path)
           c == Len(components) + 1
       IN  /\ last_case' = case
           /\ IF case = "neither"
              THEN /\ component' = Component_init(component, c, source_file, header_file)
                   /\ components' = Append(components,
                          [source_file |-> source_file, header_file |-> header_file])
                   /\ IF ~Contains(source_files, source_file)
                      THEN /\ error' = "ValueError"
                           /\ UNCHANGED <<source_files, header_files>>
                      ELSE /\ source_files' = RemovePaired(source_files, source_file)
                           /\ IF ~Contains(header_files, header_file)
                              THEN /\ error' = "ValueError"
                                   /\ UNCHANGED header_files
                              ELSE /\ header_files' =
                                        RemovePaired(header_files, header_file)
                                   /\ error' = "none"
              ELSE UNCHANGED <<component, components, source_files,
                               header_files, error>>
    /\ j' = j + 1
    /\ UNCHANGED <<node, includes, header_files_lookup, pc, copy, i, runs,
                   input_includes, prev_includes>>

\* Line 286: the inner loop is exhausted, the outer loop takes the next file
NextSourceFile ==
    /\ pc = "source_loop"
    /\ error = "none"
    /\ i <= Len(copy)
    /\ j > Len(includes[copy[i]])
    /\ i' = i + 1
    /\ j' = 1
    /\ UNCHANGED <<node, includes, component, header_files_lookup,
                   header_files, source_files, components, pc, copy, error,
                   runs, input_includes, prev_includes, last_case>>

\* Line 311: header_files.copy()
StartHeaderLoop ==
    /\ pc = "source_loop"
    /\ error = "none"
    /\ i > Len(copy)
    /\ pc' = "header_loop"
    /\ copy' = header_files
    /\ i' = 1
    /\ j' = 1
    /\ UNCHANGED <<node, includes, component, header_files_lookup,
                   header_files, source_files, components, error, runs,
                   input_includes, prev_includes, last_case>>

\* Lines 314-333: one pass of the inner loop over header_file1.includes
PairHeaderHeader ==
    /\ pc = "header_loop"
    /\ error = "none"
    /\ i <= Len(copy)
    /\ j <= Len(includes[copy[i]])
    /\ LET header_file1 == copy[i]
           header_file2 == includes[header_file1][j]
           case == PairingCase(component, header_file1, node[header_file1].include_path,
                               header_file2, node[header_file2].include_path)
           c == Len(components) + 1
       IN  /\ last_case' = case
           /\ IF case = "neither"
              THEN /\ component' = Component_init(component, c, header_file1, header_file2)
                   /\ components' = Append(components,
                          [source_file |-> header_file1, header_file |-> header_file2])
                   /\ IF ~Contains(header_files, header_file1)
                      THEN /\ error' = "ValueError"
                           /\ UNCHANGED header_files
                      ELSE LET rest == RemovePaired(header_files, header_file1)
                           IN  IF ~Contains(rest, header_file2)
                               THEN /\ error' = "ValueError"
                                    /\ header_files' = rest
                               ELSE /\ header_files' = RemovePaired(rest, header_file2)
                                    /\ error' = "none"
              ELSE UNCHANGED <<component, components, header_files, error>>
    /\ j' = j + 1
    /\ UNCHANGED <<node, includes, header_files_lookup, source_files, pc, copy,
                   i, runs, input_includes, prev_includes>>

\* Line 311: the inner loop is exhausted, the outer loop takes the next file
NextHeaderFile ==
    /\ pc = "header_loop"
    /\ error = "none"
    /\ i <= Len(copy)
    /\ j > Len(includes[copy[i]])
    /\ i' = i + 1
    /\ j' = 1
    /\ UNCHANGED <<node, includes, component, header_files_lookup,
                   header_files, source_files, components, pc, copy, error,
                   runs, input_includes, prev_includes, last_case>>

\* component_partitioning returns (main(), line 365)
PartitioningDone ==
    /\ pc = "header_loop"
    /\ error = "none"
    /\ i > Len(copy)
    /\ pc' = "done"
    /\ UNCHANGED <<node, includes, component, header_files_lookup,
                   header_files, source_files, components, copy, i, j, error,
                   runs, input_includes, prev_includes, last_case>>

----------------------------------------------------------------------------
(* The graphs the reducer and the partitioner are run on: what the graph   *)
(* builder leaves for a source file a.cpp and the headers a.h, a.hpp, b.h. *)
(* A source file is included by nobody, a header never includes itself,    *)
(* and a missing header (file_path None) includes nothing.                 *)

BuiltSources == {1}

BuiltHeaders == {2, 3, 4}

BuiltNodes(missing) ==
    [n \in BuiltSources \cup BuiltHeaders |->
        IF n \in BuiltSources THEN [cls |-> "SourceFile", include_path |-> NoPath,
                       file_path |-> Path(<<"src">>, "a", ".cpp")]
        ELSE LET p == IF n = 2 THEN Path(<<"src">>, "a", ".h")
                      ELSE IF n = 3 THEN Path(<<"src">>, "a", ".hpp")
                      ELSE Path(<<"src">>, "b", ".h")
             IN  [cls |-> "HeaderFile", include_path |-> p,
                  file_path |-> IF n \in missing THEN NoPath ELSE p]]

\* The orders in which the scans can list the headers
Orders(S) == {s \in [1..Cardinality(S) -> S] : Range(s) = S}

BuiltGraphs ==
    {g \in [BuiltSources \cup BuiltHeaders -> Lists(BuiltHeaders, MaxIncludes)] :
        \A h \in BuiltHeaders : ~Contains(g[h], h)}

Init ==
    /\ includes \in BuiltGraphs
    /\ \E missing \in SUBSET {h \in BuiltHeaders : includes[h] = <<>>} :
          /\ Cardinality(missing) <= 1
          /\ node = BuiltNodes(missing)
    /\ component = [n \in BuiltSources \cup BuiltHeaders |-> 0]
    /\ header_files \in Orders(BuiltHeaders)
    /\ source_files \in Orders(BuiltSources)
    /\ header_files_lookup =
          [p \in {node[h].include_path : h \in BuiltHeaders} |->
              CHOOSE h \in BuiltHeaders : node[h].include_path = p]
    /\ components = <<>>
    /\ pc = "reduce"
    /\ copy = <<>>
    /\ i = 1
    /\ j = 1
    /\ error = "none"
    /\ runs = 0
    /\ input_includes = includes
    /\ prev_includes = includes
    /\ last_case = "none"

\* The steps of component_partitioning
Partitioning ==
    \/ ComponentPartitioning
    \/ PairSourceHeader
    \/ NextSourceFile
    \/ StartHeaderLoop
    \/ PairHeaderHeader
    \/ NextHeaderFile
    \/ PartitioningDone

Next ==
    \/ TransitiveReduction
    \/ Partitioning

Spec == Init /\ [][Next]_vars

----------------------------------------------------------------------------
(* The graph builder: scan_include_dirs, scan_source_dirs,                 *)
(* preprocess_header_files, preprocess_source_files                        *)

\* The files on disk, in the order os.walk lists them
Files ==
    <<Path(<<"inc">>, "README", ".md"),
      Path(<<"inc">>, "a", ".h"),
      Path(<<"inc", "sub">>, "a", ".h"),
      Path(<<"inc", "sub">>, "b", ".h"),
      Path(<<"src">>, "a", ".cpp")>>

\* The directories that can be given as -i and as -s
IncludeDirChoices == {<<"inc">>, <<"inc", "sub">>}

SourceDirChoices == {<<"src">>, <<"inc">>}

\* What g++ -MM -MG can name as a dependency: a header by the path it was
\* found at, or an include token it could not find
Tokens ==
    {Path(<<"inc">>, "a", ".h"), Path(<<>>, "a", ".h"), Path(<<>>, "m", ".h")}

IsPrefix(d, e) == Len(d) <= Len(e) /\ SubSeq(e, 1, Len(d)) = d

\* os.walk(dir): the files below dir, each with the directory walked
RECURSIVE Walk(_, _)
Walk(dirs, k) ==
    IF k > Len(dirs) THEN <<>>
    ELSE LET below == SelectSeq(Files, LAMBDA f : IsPrefix(dirs[k], f.dir))
         IN  [m \in 1..Len(below) |-> [dir |-> dirs[k], file |-> below[m]]]
             \o Walk(dirs, k + 1)

\* Line 106 and 114: normpath(join(relpath(root, include_dir), filename))
RelPath(dir, f) ==
    Path(SubSeq(f.dir, Len(dir) + 1, Len(f.dir)), f.root, f.ext)

\* dict[key] = value
DictSet(d, key, value) ==
    [q \in DOMAIN d \cup {key} |-> IF q = key THEN value ELSE d[q]]

\* The state the builder works on
BuildState ==
    [node |-> node, includes |-> includes, component |-> component,
     header_files |-> header_files, source_files |-> source_files,
     header_files_lookup |-> header_files_lookup, header_dups |-> {}]

\* HeaderFile.__init__ / SourceFile.__init__: a new object, numbered next
NewNode(st, cls, include_path, file_path) ==
    [st EXCEPT !.node = Append(@, [cls |-> cls, include_path |-> include_path,
                                   file_path |-> file_path]),
               !.includes = Append(@, <<>>),
               !.component = Append(@, 0)]

\* Lines 118-127: an include path seen before is a duplicate; the lookup
\* is bound under the include path and under the file path
RegisterScannedHeader(st, include_path, file_path) ==
    LET s1 == NewNode(st, "HeaderFile", include_path, file_path)
        header_file == Len(s1.node)
    IN  IF include_path \in DOMAIN st.header_files_lookup
        THEN [s1 EXCEPT !.header_dups = @ \cup {include_path}]
        ELSE [s1 EXCEPT
                 !.header_files = Append(@, header_file),
                 !.header_files_lookup =
                     DictSet(DictSet(@, include_path, header_file),
                             file_path, header_file)]

\* Lines 102-127
RECURSIVE scan_include_dirs(_, _, _)
scan_include_dirs(st, work, k) ==
    IF k > Len(work) THEN st
    ELSE LET f == work[k].file
         IN  IF f.ext \in HeaderFile_file_extensions
             THEN scan_include_dirs(
                      RegisterScannedHeader(st, RelPath(work[k].dir, f), f),
                      work, k + 1)
             ELSE scan_include_dirs(st, work, k + 1)

\* Lines 160-163: a header below a source directory is listed and bound
\* under its file path
RegisterSourceDirHeader(st, file_path) ==
    LET s1 == NewNode(st, "HeaderFile", file_path, file_path)
        header_file == Len(s1.node)
    IN  [s1 EXCEPT !.header_files = Append(@, header_file),
                   !.header_files_lookup = DictSet(@, file_path, header_file)]

\* Lines 140-163
RECURSIVE scan_source_dirs(_, _, _)
scan_source_dirs(st, work, k) ==
    IF k > Len(work) THEN st
    ELSE LET f == work[k].file
         IN  IF f.ext \in SourceFile_file_extensions
             THEN LET s1 == NewNode(st, "SourceFile", NoPath, f)
                  IN  scan_source_dirs(
                          [s1 EXCEPT !.source_files = Append(@, Len(s1.node))],
                          work, k + 1)
             ELSE IF f.ext \in HeaderFile_file_extensions
             THEN scan_source_dirs(RegisterSourceDirHeader(st, f), work, k + 1)
             ELSE scan_source_dirs(st, work, k + 1)

\* Lines 190-194 and 225-229: an unknown include path becomes a missing
\* header, listed and bound under that path
AddMissingHeader(st, file, include_path) ==
    LET s1 == NewNode(st, "HeaderFile", include_path, NoPath)
        missing_header_file == Len(s1.node)
    IN  [s1 EXCEPT !.includes[file] = Append(@, missing_header_file),
                   !.header_files = Append(@, missing_header_file),
                   !.header_files_lookup =
                       DictSet(@, include_path, missing_header_file)]

\* Lines 184-194 (skip_self) and 221-229 (not skip_self)
RECURSIVE AddIncludes(_, _, _, _, _)
AddIncludes(st, file, paths, k, skip_self) ==
    IF k > Len(paths) THEN st
    ELSE IF paths[k] \in DOMAIN st.header_files_lookup
    THEN LET found_header_file == st.header_files_lookup[paths[k]]
         IN  IF skip_self /\ found_header_file = file
             THEN AddIncludes(st, file, paths, k + 1, skip_self)
             ELSE AddIncludes(
                      [st EXCEPT !.includes[file] = Append(@, found_header_file)],
                      file, paths, k + 1, skip_self)
    ELSE AddIncludes(AddMissingHeader(st, file, paths[k]), file, paths, k + 1,
                     skip_self)

\* What subprocess.run can return for a file: a failure, or the words of
\* the dependency rule "target: file dependency ...", or nothing
OracleResults(file_path) ==
    {[returncode |-> 1, stdout |-> <<>>], [returncode |-> 0, stdout |-> <<>>]}
    \cup {[returncode |-> 0,
           stdout |-> <<Path(<<>>, file_path.root, ".o:"), file_path>> \o deps] :
             deps \in Lists(Tokens, MaxDeps)}

\* Lines 179-184 and 216-221: includes[2:] of a successful, non-empty run
ParsedIncludes(r) ==
    IF r.returncode = 0 /\ Len(r.stdout) > 0
    THEN SubSeq(r.stdout, 3, Len(r.stdout))
    ELSE <<>>

\* main(), line 359
ScanIncludeDirs ==
    /\ pc = "scan_include"
    /\ \E include_dirs \in Lists(IncludeDirChoices, MaxDirs) :
          LET st == scan_include_dirs(BuildState, Walk(include_dirs, 1), 1)
          IN  /\ node' = st.node
              /\ includes' = st.includes
              /\ component' = st.component
              /\ header_files' = st.header_files
              /\ header_files_lookup' = st.header_files_lookup
              /\ pc' = IF st.header_dups # {} THEN "exit" ELSE "scan_source"
    /\ UNCHANGED <<source_files, components, copy, i, j, error, runs,
                   input_includes, prev_includes, last_case>>

\* main(), line 360
ScanSourceDirs ==
    /\ pc = "scan_source"
    /\ \E source_dirs \in Lists(SourceDirChoices, MaxDirs) :
          LET st == scan_source_dirs(BuildState, Walk(source_dirs, 1), 1)
          IN  /\ node' = st.node
              /\ includes' = st.includes
              /\ component' = st.component
              /\ header_files' = st.header_files
              /\ source_files' = st.source_files
              /\ header_files_lookup' = st.header_files_lookup
              /\ copy' = st.header_files
    /\ pc' = "preprocess_headers"
    /\ i' = 1
    /\ UNCHANGED <<components, j, error, runs, input_includes, prev_includes,
                   last_case>>

\* Lines 169-200: one pass of the loop over header_files.copy()
PreprocessHeaderFile ==
    /\ pc = "preprocess_headers"
    /\ i <= Len(copy)
    /\ \E r \in OracleResults(node[copy[i]].file_path) :
          LET st == AddIncludes(BuildState, copy[i], ParsedIncludes(r), 1, TRUE)
          IN  /\ node' = st.node
              /\ includes' = st.includes
              /\ component' = st.component
              /\ header_files' = st.header_files
              /\ header_files_lookup' = st.header_files_lookup
    /\ i' = i + 1
    /\ UNCHANGED <<source_files, components, pc, copy, j, error, runs,
                   input_includes, prev_includes, last_case>>

\* main(), line 362, and line 206: source_files.copy()
PreprocessSourceFiles ==
    /\ pc = "preprocess_headers"
    /\ i > Len(copy)
    /\ pc' = "preprocess_sources"
    /\ copy' = source_files
    /\ i' = 1
    /\ UNCHANGED <<node, includes, component, header_files_lookup,
                   header_files, source_files, components, j, error, runs,
                   input_includes, prev_includes, last_case>>

\* Lines 206-235: one pass of the loop over source_files.copy()
PreprocessSourceFile ==
    /\ pc = "preprocess_sources"
    /\ i <= Len(copy)
    /\ \E r \in OracleResults(node[copy[i]].file_path) :
          LET st == AddIncludes(BuildState, copy[i], ParsedIncludes(r), 1, FALSE)
          IN  /\ node' = st.node
              /\ includes' = st.includes
              /\ component' = st.component
              /\ header_files' = st.header_files
              /\ header_files_lookup' = st.header_files_lookup
    /\ i' = i + 1
    /\ UNCHANGED <<source_files, components, pc, copy, j, error, runs,
                   input_includes, prev_includes, last_case>>

\* preprocess_source_files returns: the graph is built (main(), line 363)
GraphBuilt ==
    /\ pc = "preprocess_sources"
    /\ i > Len(copy)
    /\ pc' = "built"
    /\ UNCHANGED <<node, includes, component, header_files_lookup,
                   header_files, source_files, components, copy, i, j, error,
                   runs, input_includes, prev_includes, last_case>>

\* Project.__init__ and the start of main()
InitBuild ==
    /\ node = <<>>
    /\ includes = <<>>
    /\ component = <<>>
    /\ header_files_lookup = [p \in {} |-> 0]
    /\ header_files = <<>>
    /\ source_files = <<>>
    /\ components = <<>>
    /\ pc = "scan_include"
    /\ copy = <<>>
    /\ i = 1
    /\ j = 1
    /\ error = "none"
    /\ runs = 0
    /\ input_includes = <<>>
    /\ prev_includes = <<>>
    /\ last_case = "none"

NextBuild ==
    \/ ScanIncludeDirs
    \/ ScanSourceDirs
    \/ PreprocessHeaderFile
    \/ PreprocessSourceFiles
    \/ PreprocessSourceFile
    \/ GraphBuilt

SpecBuild == InitBuild /\ [][NextBuild]_vars

----------------------------------------------------------------------------
(* Reachability in an include graph *)

RECURSIVE Closure(_, _)
Closure(inc, S) ==
    LET T == S \cup UNION {Range(inc[m]) : m \in S}
    IN  IF T = S THEN S ELSE Closure(inc, T)

\* The nodes reachable from n along one or more edges of inc
Reach(inc, n) == Closure(inc, Range(inc[n]))

Acyclic(inc) == \A n \in DOMAIN inc : n \notin Reach(inc, n)

Reduced == runs >= 1 /\ error = "none"

----------------------------------------------------------------------------
(* Claims *)

\* C1: after transitive_reduction every node reaches exactly the nodes it
\* reached in the input graph, cyclic graphs included.
C1_ReachabilityPreserved ==
    Reduced => \A n \in DOMAIN includes :
                   Reach(includes, n) = Reach(input_includes, n)

\* C2 as stated: after transitive_reduction no surviving child of a node is
\* reachable from another surviving child of that node, in any graph.
C2_NoRedundantEdges ==
    Reduced => \A n \in DOMAIN includes :
                   \A c1, c2 \in Range(includes[n]) :
                       c1 # c2 => c1 \notin Reach(includes, c2)

\* C3: a second transitive_reduction leaves every includes list as the
\* first one left it.
C3_Idempotent ==
    (runs = 2 /\ error = "none") => includes = prev_includes

\* C7 as stated: an edge that lies on a cycle of the input graph is still
\* there after transitive_reduction.
C7_CycleEdgesRetained ==
    Reduced => \A a \in DOMAIN includes : \A b \in Range(input_includes[a]) :
                   a \in Reach(input_includes, b) => Contains(includes[a], b)

\* C10: on an acyclic input graph transitive_reduction leaves in each
\* includes list exactly the original children that no other original
\* child reaches, in their original order.
C10_ExactOnAcyclic ==
    (Reduced /\ Acyclic(input_includes)) =>
        \A n \in DOMAIN includes :
            includes[n] =
                SelectSeq(input_includes[n],
                    LAMBDA c : ~\E c2 \in Range(input_includes[n]) \ {c} :
                                   c \in Reach(input_includes, c2))

\* C2 amended: on an acyclic input graph, after transitive_reduction no
\* surviving child of a node is reachable from another surviving child.
C2_NoRedundantEdgesAcyclic ==
    Acyclic(input_includes) => C2_NoRedundantEdges

C2_Witness ==
    /\ Reduced
    /\ Acyclic(input_includes)
    /\ \E n \in DOMAIN includes :
          /\ Len(includes[n]) >= 2
          /\ \E m \in DOMAIN includes : Len(includes[m]) < Len(input_includes[m])

\* C7 amended: when A's only include is B and B's only include is A, both
\* edges are still there after transitive_reduction, whatever else the
\* graph holds and in whatever order the nodes are visited.
C7_MutualPairRetained ==
    Reduced => \A a, b \in DOMAIN includes :
                   (input_includes[a] = <<b>> /\ input_includes[b] = <<a>>)
                       => (includes[a] = <<b>> /\ includes[b] = <<a>>)

C7_Witness ==
    /\ Reduced
    /\ \E a, b \in DOMAIN includes :
          /\ input_includes[a] = <<b>> /\ input_includes[b] = <<a>>
          /\ \E x \in DOMAIN includes : Contains(input_includes[x], a)
                                        /\ x # b

C10_Witness ==
    /\ Reduced
    /\ Acyclic(input_includes)
    /\ \E n \in DOMAIN includes :
          /\ Len(input_includes[n]) = 2
          /\ Len(includes[n]) = 1
          /\ includes[n][1] = input_includes[n][2]

\* The components that hold node n as source_file or header_file
ComponentsOf(n) ==
    {c \in 1..Len(components) :
        components[c].source_file = n \/ components[c].header_file = n}

Occurrences(list, n) == Cardinality({k \in 1..Len(list) : list[k] = n})

\* Where main() stands: the phases in the order it leaves them
Rank ==
    IF pc = "reduce" THEN 3
    ELSE IF pc = "source_loop" THEN 2
    ELSE IF pc = "header_loop" THEN 1
    ELSE 0

RECURSIVE LoopSteps(_)
LoopSteps(k) ==
    IF k > Len(copy) THEN 1
    ELSE Len(includes[copy[k]]) + 1 + LoopSteps(k + 1)

\* The steps the running phase has left
Remaining ==
    IF pc = "reduce" THEN MaxRuns - runs
    ELSE IF pc = "done" THEN 0
    ELSE LoopSteps(i) - (j - 1)

\* Every step brings the run nearer to its end
Progress ==
    \/ Rank' < Rank
    \/ Rank' = Rank /\ Remaining' < Remaining

C5_EveryNodeInOneComponent ==
    pc = "done" => \A n \in DOMAIN node :
                       component[n] # 0 /\ Cardinality(ComponentsOf(n)) = 1

\* C5 amended: after component_partitioning every Component holds two
\* distinct nodes; a paired node is in exactly one Component and in neither
\* file list; an unpaired node has no Component (component is None) and is
\* listed once in source_files or header_files.
C5_PairedOrListed ==
    pc = "done" =>
        /\ \A c \in 1..Len(components) :
               components[c].source_file # components[c].header_file
        /\ \A n \in DOMAIN node :
               LET listed == Occurrences(source_files, n)
                             + Occurrences(header_files, n)
               IN  IF component[n] = 0
                   THEN ComponentsOf(n) = {} /\ listed = 1
                   ELSE Cardinality(ComponentsOf(n)) = 1 /\ listed = 0

C5_Witness ==
    /\ pc = "done"
    /\ Len(components) >= 1
    /\ \E n \in DOMAIN node : component[n] = 0

\* The pair the running loop tests next
Referencing == copy[i]

Referenced == includes[copy[i]][j]

ReferencingPath ==
    IF pc = "source_loop" THEN node[Referencing].file_path
    ELSE node[Referencing].include_path

\* A step of either loop that tests a same-name pair of which exactly one
\* node has a component
TestsHalfPairedMatch ==
    /\ pc \in {"source_loop", "header_loop"}
    /\ j' = j + 1
    /\ SameNameOtherExt(ReferencingPath, node[Referenced].include_path)
    /\ (component[Referencing] = 0) # (component[Referenced] = 0)

\* C6 as stated: when two nodes joined by an edge match and exactly one
\* has a component, the other one is added to that component.
C6_MergeByAdoption ==
    [][TestsHalfPairedMatch =>
          /\ component'[Referencing] = component'[Referenced]
          /\ component'[Referencing] # 0]_vars

\* C6 amended: when two nodes joined by an edge match and exactly one has
\* a component, nothing is changed: the other node keeps no component and
\* stays in its file list, and no component is created.
C6_HalfPairedUnchanged ==
    [][TestsHalfPairedMatch =>
          UNCHANGED <<component, components, source_files, header_files>>]_vars

C6_Witness ==
    /\ last_case \in {"first_only", "second_only"}
    /\ Len(components) >= 1
    /\ \E n \in DOMAIN node : component[n] = 0

\* C8: during and after component_partitioning a node is in at most one
\* Component, and it is a member of Component c exactly when its
\* component back-reference is c.
C8_MembershipMutual ==
    \A n \in DOMAIN node :
        /\ Cardinality(ComponentsOf(n)) <= 1
        /\ \A c \in 1..Len(components) : c \in ComponentsOf(n) <=> component[n] = c

C8_Witness ==
    /\ pc = "done"
    /\ Len(components) >= 1
    /\ last_case \in {"both", "first_only", "second_only"}

\* What a node stands for: the file it was read from, or the include
\* token nothing was found for
Identity(n) ==
    IF node[n].file_path # NoPath THEN node[n].file_path
    ELSE node[n].include_path

\* C9: every file path and every unresolved include token is one node in
\* every state of a run that goes on (sys.exit ends it): header_files
\* holds no two nodes for the same path or token, whoever includes the same
\* path or token holds the same node, and header_files_lookup never binds
\* a bound key to another node.
C9_NodeIdentityUnique ==
    /\ [](pc # "exit" =>
            /\ \A a, b \in 1..Len(header_files) :
                 a # b => Identity(header_files[a]) # Identity(header_files[b])
            /\ \A x, y \in DOMAIN includes :
                 \A c \in Range(includes[x]) : \A d \in Range(includes[y]) :
                     Identity(c) = Identity(d) => c = d)
    /\ [][pc' # "exit" =>
             \A key \in DOMAIN header_files_lookup :
                 header_files_lookup'[key] = header_files_lookup[key]]_vars

====
